---- MODULE Spec2Model ----
(***************************************************************************)
(* Model of preprocess.py: the Preprocess class, which discovers           *)
(* (json, nifti) pairs in an input directory, derives output paths, and    *)
(* runs step 1 (make + store masks) and step 2 (load mask, rescale, crop,  *)
(* rescale, store scan and mask) over the discovered cases.                *)
(*                                                                         *)
(* Paths are strings; the string operations of the code (startswith,       *)
(* endswith, slicing, os.path.join) are modelled on the characters.        *)
(* The Patient class (utils.preprocess) is not part of the source file;    *)
(* its operations are modelled from the specification and act on array     *)
(* descriptors (origin, shape, cropped flag), not on voxel data.           *)
(***************************************************************************)
EXTENDS Integers, Sequences, FiniteSets, TLC

VARIABLES
    input_dir,      \* self.input_dir
    output_dir,     \* self.output_dir
    max_depth,      \* constructor argument max_depth
    listing,        \* os.listdir(input_dir): the file names, in listing order
    keys,           \* json path  -> number of top-level keys of the json object
    depth,          \* nifti path -> header.get_data_shape()[2]
    ctor,           \* "ok", or the exception the constructor raised
    dataset_paths,  \* self.dataset_paths: sequence of <<json_path, nifti_path>>
    output_paths,   \* self.output_paths: sequence of <<scan_path, mask_path>>
    dirs,           \* directories that exist under the output location
    store,          \* .npy files: path -> array descriptor
    pc,             \* position inside preprocess_dataset
    steps,          \* argument steps of the running / last call
    cube_side,      \* argument cube_side of the running / last call
    factor,         \* argument factor of the running / last call
    i,              \* loop index of step1 / step2 (1-based)
    k,              \* index of the next operation of step2 on case i
    patient,        \* the Patient object of the current step2 iteration
    calls,          \* number of preprocess_dataset calls made
    error,          \* exception that ended the last call, or "none"
    phases,         \* history: phases started by the running / last call
    step1Cases,     \* history: cases step1 processed in the running / last call
    opsDone,        \* history: case -> operations step2 applied in this call
    written         \* history: every np.save performed: [phase, kind, path]

vars == <<input_dir, output_dir, max_depth, listing, keys, depth, ctor,
          dataset_paths, output_paths, dirs, store, pc, steps, cube_side,
          factor, i, k, patient, calls, error, phases, step1Cases, opsDone,
          written>>

inputVars == <<input_dir, output_dir, max_depth, listing, keys, depth, ctor,
               dataset_paths, output_paths>>

-----------------------------------------------------------------------------
(* Bounds of the model *)

\* number of preprocess_dataset calls explored
MaxCalls == 2

\* nifti depths range over 1..DepthLimit; max_depth is drawn from MaxDepths
DepthLimit == 3

\* file names that may be present in the input directory
FileNames == {"a.json", "ab.json", "a.nii.gz", "ab.nii.gz"}

\* values of the input_dir argument (with and without a trailing separator)
InputDirs == {"in/", "in"}

\* values of the output_dir argument
OutputDirs == {"out"}

\* key counts of a json object
KeyCounts == {2, 3}

\* values of the steps argument
StepsArgs == {<<1>>, <<2>>, <<1, 2>>, <<2, 1>>}

-----------------------------------------------------------------------------
(* String and path primitives *)

\* Python s.startswith(p)
StartsWith(s, p) ==
    /\ Len(s) >= Len(p)
    /\ SubSeq(s, 1, Len(p)) = p

\* Python s.endswith(p)
EndsWith(s, p) ==
    /\ Len(s) >= Len(p)
    /\ SubSeq(s, Len(s) - Len(p) + 1, Len(s)) = p

\* Python s[a:-n] for a >= 0, n > 0
Slice(s, a, n) ==
    IF Len(s) - n <= a THEN "" ELSE SubSeq(s, a + 1, Len(s) - n)

\* os.path.join(a, b) on POSIX: an absolute b discards a
PathJoin(a, b) ==
    IF StartsWith(b, "/") THEN b
    ELSE IF a = "" \/ EndsWith(a, "/") THEN a \o b
    ELSE a \o "/" \o b

\* os.path.join(a, b, c)
PathJoin3(a, b, c) == PathJoin(PathJoin(a, b), c)

\* len(".json") as used by json_path[:-5]
JsonSuffixLen == 5

\* len(".nii.gz") as used by paths[1][len(input_dir):-7]
NiftiSuffixLen == 7

Range(s) == {s[n] : n \in DOMAIN s}

\* list(map(f, s)) for f = os.path.join(dir, .)
JoinAll(dir, s) == [n \in DOMAIN s |-> PathJoin(dir, s[n])]

-----------------------------------------------------------------------------
(* Discovery: get_good_json_paths, select_one_nifti_path, get_dataset_paths *)

IsJsonName(x) == EndsWith(x, ".json")

\* all_json_paths of get_good_json_paths
AllJsonPaths(dir, ls) == JoinAll(dir, SelectSeq(ls, IsJsonName))

\* the mutation of the key-count test: >= 2 instead of > 2
HasLocalisationWeak(n) == n >= 2

\* len(data.keys()) > 2
HasLocalisation(n) == n > 2

\* get_good_json_paths
get_good_json_paths(dir, ls, ks) ==
    SelectSeq(AllJsonPaths(dir, ls), LAMBDA p : HasLocalisation(ks[p]))

\* nifti_candidates of select_one_nifti_path
nifti_candidates(json_path, all_paths) ==
    SelectSeq(all_paths,
              LAMBDA x : /\ StartsWith(x, Slice(json_path, 0, JsonSuffixLen))
                         /\ EndsWith(x, ".nii.gz"))

\* initial value of max_z
InitialMaxZ == 1

\* the for loop of select_one_nifti_path from candidate n on, carrying
\* (max_z, final_nifti_path)
RECURSIVE SelectLoop(_, _, _, _, _, _)
SelectLoop(cands, n, max_z, final, md, dp) ==
    IF n > Len(cands) THEN final
    ELSE LET z == dp[cands[n]] IN
         IF max_z < z /\ z < md
         THEN SelectLoop(cands, n + 1, z, cands[n], md, dp)
         ELSE SelectLoop(cands, n + 1, max_z, final, md, dp)

\* select_one_nifti_path; defined when there is at least one candidate
select_one_nifti_path(json_path, all_paths, md, dp) ==
    LET cands == nifti_candidates(json_path, all_paths) IN
    SelectLoop(cands, 1, InitialMaxZ, cands[1], md, dp)

\* nifti_candidates[0] raises IndexError for some good json path
RaisesIndexError(dir, ls, ks) ==
    \E p \in Range(get_good_json_paths(dir, ls, ks)) :
        Len(nifti_candidates(p, JoinAll(dir, ls))) = 0

\* get_dataset_paths
get_dataset_paths(dir, ls, ks, md, dp) ==
    LET good == get_good_json_paths(dir, ls, ks) IN
    [n \in DOMAIN good |->
        <<good[n], select_one_nifti_path(good[n], JoinAll(dir, ls), md, dp)>>]

\* get_output_paths
get_output_paths(dir, out, ds) ==
    [n \in DOMAIN ds |->
        LET scan_name == Slice(ds[n][2], Len(dir), NiftiSuffixLen) IN
        << PathJoin3(out, "scans/", scan_name \o ".npy"),
           PathJoin3(out, "masks/", scan_name \o ".npy") >>]

-----------------------------------------------------------------------------
(* Array descriptors and the Patient object (utils.preprocess.Patient)     *)

\* extent of the first two axes of every volume
GridXY == 2

\* per-axis factor of rescale('up') on the third axis; rescale('down') is
\* its inverse
ZoomZ == 2

NoArray ==
    [kind |-> "none", json |-> "", nifti |-> "", cube |-> 0,
     shape |-> <<0, 0, 0>>, cropped |-> FALSE]

NoPatient == [json |-> "", nifti |-> "", vol |-> NoArray, mask |-> NoArray]

\* Patient(json_path, nifti_path): loads the volume, no mask yet
Patient(json_path, nifti_path, dp) ==
    [json  |-> json_path,
     nifti |-> nifti_path,
     vol   |-> [kind |-> "scan", json |-> json_path, nifti |-> nifti_path,
                cube |-> 0, shape |-> <<GridXY, GridXY, dp[nifti_path]>>,
                cropped |-> FALSE],
     mask  |-> NoArray]

\* patient.make_mask(cube_side): a binary mask of the volume's shape
make_mask(p, cube) ==
    [p EXCEPT !.mask = [kind |-> "mask", json |-> p.json, nifti |-> p.nifti,
                        cube |-> cube, shape |-> p.vol.shape,
                        cropped |-> FALSE]]

\* patient.load_mask(path): the array stored at path, as it is
load_mask(p, st, path) == [p EXCEPT !.mask = st[path]]

ScaleShape(sh, dir) ==
    IF dir = "up" THEN <<sh[1], sh[2], sh[3] * ZoomZ>>
    ELSE <<sh[1], sh[2], sh[3] \div ZoomZ>>

\* patient.rescale(dir): volume and mask are resampled along the third axis
rescale(p, dir) ==
    [p EXCEPT !.vol.shape = ScaleShape(@, dir),
              !.mask.shape = IF p.mask.kind = "none" THEN @
                             ELSE ScaleShape(@, dir)]

\* crop_3d fails when volume and mask shapes differ (ShapeMismatch)
CropRaises(p) == p.mask.shape # p.vol.shape

\* extents the bounding box can take on the third axis: the full extent
\* (fail open) or the extent less one original slice
CropExtents(z) == {z} \cup {e \in {z - ZoomZ} : e >= ZoomZ}

\* patient.crop_3d(factor) with bounding extent e on the third axis
crop_3d(p, e) ==
    [p EXCEPT !.vol.shape = <<@[1], @[2], e>>, !.vol.cropped = TRUE,
              !.mask.shape = <<@[1], @[2], e>>, !.mask.cropped = TRUE]

\* np.save(path, arr): creates or overwrites the file at path
Put(st, path, arr) ==
    [q \in DOMAIN st \cup {path} |-> IF q = path THEN arr ELSE st[q]]

-----------------------------------------------------------------------------
(* The state after construction *)

Injective(s) == \A m, n \in DOMAIN s : m # n => s[m] # s[n]

\* the json names of a listing precede its other names: the code reads a
\* listing through order-preserving filters on one kind of name, so only the
\* relative order of the json names and that of the nifti names reach it
JsonsFirst(s) ==
    \A m, n \in DOMAIN s : (IsJsonName(s[n]) /\ ~IsJsonName(s[m])) => n < m

\* results of os.listdir: any files of FileNames, the names of each kind in
\* any order
Listings ==
    {s \in UNION {[1..n -> FileNames] : n \in 0..Cardinality(FileNames)} :
        Injective(s) /\ JsonsFirst(s)}

MaxDepths == {DepthLimit}

NoStore == [q \in {} |-> NoArray]

Init ==
    /\ input_dir \in InputDirs
    /\ output_dir \in OutputDirs
    /\ max_depth \in MaxDepths
    /\ listing \in Listings
    /\ keys \in [Range(AllJsonPaths(input_dir, listing)) -> KeyCounts]
    /\ depth \in [{p \in Range(JoinAll(input_dir, listing)) :
                      EndsWith(p, ".nii.gz")} -> 1..DepthLimit]
    /\ IF RaisesIndexError(input_dir, listing, keys)
       THEN /\ ctor = "IndexError"
            /\ dataset_paths = <<>>
            /\ output_paths = <<>>
       ELSE /\ ctor = "ok"
            /\ dataset_paths =
                 get_dataset_paths(input_dir, listing, keys, max_depth, depth)
            /\ output_paths =
                 get_output_paths(input_dir, output_dir, dataset_paths)
    /\ dirs = {}
    /\ store = NoStore
    /\ pc = "idle"
    /\ steps = <<>>
    /\ cube_side = 0
    /\ factor = 0
    /\ i = 0
    /\ k = 0
    /\ patient = NoPatient
    /\ calls = 0
    /\ error = "none"
    /\ phases = <<>>
    /\ step1Cases = {}
    /\ opsDone = <<>>
    /\ written = {}

N == Len(dataset_paths)

\* Python "x in steps"
InSteps(x, s) == \E n \in DOMAIN s : s[n] = x

-----------------------------------------------------------------------------
(* preprocess_dataset *)

\* default arguments of preprocess_dataset
DefaultCubeSide == 10

DefaultFactor == 2

\* values of the cube_side argument
CubeSides == {DefaultCubeSide, 3}

\* cube_side is passed by callers that select step 1; the others leave it
\* to its default
CubeArgs(s) == IF \E n \in DOMAIN s : s[n] = 1 THEN CubeSides
               ELSE {DefaultCubeSide}

\* values of the factor argument
Factors == {DefaultFactor}

\* a caller invokes preprocess_dataset(s, c, f) on the constructed object
Call(s, c, f) ==
    /\ pc = "idle"
    /\ ctor = "ok"
    /\ calls < MaxCalls
    /\ calls' = calls + 1
    /\ steps' = s
    /\ cube_side' = c
    /\ factor' = f
    /\ pc' = "prepare"
    /\ error' = "none"
    /\ phases' = <<>>
    /\ step1Cases' = {}
    /\ opsDone' = [n \in 1..N |-> <<>>]
    /\ i' = 0
    /\ k' = 0
    /\ patient' = NoPatient
    /\ UNCHANGED <<inputVars, dirs, store, written>>

\* the directories prepare_output_folders makes sure exist
OutputFolders ==
    {output_dir, PathJoin(output_dir, "scans"), PathJoin(output_dir, "masks")}

\* self.prepare_output_folders(), then the test "if 1 in steps"
PrepareOutputFolders ==
    /\ pc = "prepare"
    /\ dirs' = dirs \cup OutputFolders
    /\ IF InSteps(1, steps)
       THEN /\ pc' = "step1"
            /\ phases' = <<"prepare", "step1">>
            /\ i' = 1
       ELSE /\ pc' = "test2"
            /\ phases' = <<"prepare">>
            /\ i' = i
    /\ UNCHANGED <<inputVars, store, steps, cube_side, factor, k, patient,
                   calls, error, step1Cases, opsDone, written>>

\* the mutation of the store of step1: an existing mask file is kept
Step1SaveIfAbsent(st, path, arr) ==
    IF path \in DOMAIN st THEN st ELSE Put(st, path, arr)

\* patient.save_mask(output_mask_path) of step1
Step1Save(st, path, arr) == Put(st, path, arr)

\* one iteration of the loop of step1
Step1Case ==
    /\ pc = "step1"
    /\ i <= N
    /\ LET json_path == dataset_paths[i][1]
           nifti_path == dataset_paths[i][2]
           output_mask_path == output_paths[i][2]
           p == make_mask(Patient(json_path, nifti_path, depth), cube_side)
       IN /\ store' = Step1Save(store, output_mask_path, p.mask)
          /\ written' = written \cup
                 {[phase |-> "step1", kind |-> "mask",
                   path |-> output_mask_path]}
    /\ step1Cases' = step1Cases \cup {i}
    /\ i' = i + 1
    /\ UNCHANGED <<inputVars, dirs, pc, steps, cube_side, factor, k, patient,
                   calls, error, phases, opsDone>>

\* step1 returns
Step1Done ==
    /\ pc = "step1"
    /\ i > N
    /\ pc' = "test2"
    /\ UNCHANGED <<inputVars, dirs, store, steps, cube_side, factor, i, k,
                   patient, calls, error, phases, step1Cases, opsDone,
                   written>>

\* the test "if 2 in steps"
TestStep2 ==
    /\ pc = "test2"
    /\ IF InSteps(2, steps)
       THEN /\ pc' = "step2"
            /\ phases' = Append(phases, "step2")
            /\ i' = 1
            /\ k' = 1
       ELSE /\ pc' = "idle"
            /\ UNCHANGED <<phases, i, k>>
    /\ UNCHANGED <<inputVars, dirs, store, steps, cube_side, factor, patient,
                   calls, error, step1Cases, opsDone, written>>

\* mutations of the order of the operations of step2
Step2OpsSavesSwapped ==
    <<"load_mask", "rescale_up", "crop_3d", "rescale_down", "save_mask",
      "save_scan">>

Step2OpsSaveBeforeCrop ==
    <<"load_mask", "rescale_up", "save_scan", "crop_3d", "rescale_down",
      "save_mask">>

\* the operations of the body of the loop of step2, in program order
Step2Ops ==
    <<"load_mask", "rescale_up", "crop_3d", "rescale_down", "save_scan",
      "save_mask">>

\* control after operation k of case i completed normally
Advance(op) ==
    /\ opsDone' = [opsDone EXCEPT ![i] = Append(@, op)]
    /\ IF k = Len(Step2Ops)
       THEN /\ i' = i + 1
            /\ k' = 1
       ELSE /\ i' = i
            /\ k' = k + 1

\* an exception leaves step2 and preprocess_dataset: nothing catches it
Raise(op, exc) ==
    /\ opsDone' = [opsDone EXCEPT ![i] = Append(@, op)]
    /\ error' = exc
    /\ pc' = "idle"
    /\ patient' = NoPatient
    /\ UNCHANGED <<i, k>>

AtOp(op) ==
    /\ pc = "step2"
    /\ i <= N
    /\ Step2Ops[k] = op

\* the Patient object operation k works on: a new one for the first
\* operation of the iteration
Current ==
    IF k = 1
    THEN Patient(dataset_paths[i][1], dataset_paths[i][2], depth)
    ELSE patient

\* patient = Patient(...); patient.load_mask(mask_path)
LoadMask ==
    /\ AtOp("load_mask")
    /\ output_paths[i][2] \in DOMAIN store
    /\ patient' = load_mask(Current, store, output_paths[i][2])
    /\ Advance("load_mask")
    /\ UNCHANGED <<inputVars, dirs, store, pc, steps, cube_side, factor,
                   calls, error, phases, step1Cases, written>>

\* load_mask on a path that holds no file
LoadMaskFails ==
    /\ AtOp("load_mask")
    /\ output_paths[i][2] \notin DOMAIN store
    /\ Raise("load_mask", "FileNotFoundError")
    /\ UNCHANGED <<inputVars, dirs, store, steps, cube_side, factor, calls,
                   phases, step1Cases, written>>

\* patient.rescale('up')
RescaleUp ==
    /\ AtOp("rescale_up")
    /\ patient' = rescale(Current, "up")
    /\ Advance("rescale_up")
    /\ UNCHANGED <<inputVars, dirs, store, pc, steps, cube_side, factor,
                   calls, error, phases, step1Cases, written>>

\* patient.crop_3d(factor)
Crop3d ==
    /\ AtOp("crop_3d")
    /\ ~CropRaises(Current)
    /\ \E e \in CropExtents(Current.vol.shape[3]) :
          patient' = crop_3d(Current, e)
    /\ Advance("crop_3d")
    /\ UNCHANGED <<inputVars, dirs, store, pc, steps, cube_side, factor,
                   calls, error, phases, step1Cases, written>>

\* crop_3d on a volume and a mask of different shapes
Crop3dFails ==
    /\ AtOp("crop_3d")
    /\ CropRaises(Current)
    /\ Raise("crop_3d", "ShapeMismatch")
    /\ UNCHANGED <<inputVars, dirs, store, steps, cube_side, factor, calls,
                   phases, step1Cases, written>>

\* patient.rescale('down')
RescaleDown ==
    /\ AtOp("rescale_down")
    /\ patient' = rescale(Current, "down")
    /\ Advance("rescale_down")
    /\ UNCHANGED <<inputVars, dirs, store, pc, steps, cube_side, factor,
                   calls, error, phases, step1Cases, written>>

\* patient.save_scan(output_scan_path)
SaveScan ==
    /\ AtOp("save_scan")
    /\ store' = Put(store, output_paths[i][1], Current.vol)
    /\ written' = written \cup
           {[phase |-> "step2", kind |-> "scan", path |-> output_paths[i][1]]}
    /\ patient' = Current
    /\ Advance("save_scan")
    /\ UNCHANGED <<inputVars, dirs, pc, steps, cube_side, factor, calls,
                   error, phases, step1Cases>>

\* patient.save_mask(mask_path)
SaveMask ==
    /\ AtOp("save_mask")
    /\ store' = Put(store, output_paths[i][2], Current.mask)
    /\ written' = written \cup
           {[phase |-> "step2", kind |-> "mask", path |-> output_paths[i][2]]}
    /\ patient' = Current
    /\ Advance("save_mask")
    /\ UNCHANGED <<inputVars, dirs, pc, steps, cube_side, factor, calls,
                   error, phases, step1Cases>>

\* step2 and preprocess_dataset return
Step2Done ==
    /\ pc = "step2"
    /\ i > N
    /\ pc' = "idle"
    /\ patient' = NoPatient
    /\ UNCHANGED <<inputVars, dirs, store, steps, cube_side, factor, i, k,
                   calls, error, phases, step1Cases, opsDone, written>>

Next ==
    \/ \E s \in StepsArgs :
          \E c \in CubeArgs(s), f \in Factors : Call(s, c, f)
    \/ PrepareOutputFolders
    \/ Step1Case
    \/ Step1Done
    \/ TestStep2
    \/ LoadMask
    \/ LoadMaskFails
    \/ RescaleUp
    \/ Crop3d
    \/ Crop3dFails
    \/ RescaleDown
    \/ SaveScan
    \/ SaveMask
    \/ Step2Done

Spec == Init /\ [][Next]_vars

-----------------------------------------------------------------------------
(* Properties *)

Cases == 1..N

ScanPath(n) == output_paths[n][1]

MaskPath(n) == output_paths[n][2]

IsPrefix(a, b) == Len(a) <= Len(b) /\ a = SubSeq(b, 1, Len(a))

\* the file at the scan path of case n holds a cropped scan
ScanCropped(n) ==
    /\ ScanPath(n) \in DOMAIN store
    /\ store[ScanPath(n)].kind = "scan"
    /\ store[ScanPath(n)].cropped

\* the file at the mask path of case n holds a cropped mask
MaskCropped(n) ==
    /\ MaskPath(n) \in DOMAIN store
    /\ store[MaskPath(n)].kind = "mask"
    /\ store[MaskPath(n)].cropped

\* case n shares none of its output paths with another case or with itself
OwnPaths(n) ==
    /\ ScanPath(n) # MaskPath(n)
    /\ \A m \in Cases \ {n} :
          {ScanPath(m), MaskPath(m)} \cap {ScanPath(n), MaskPath(n)} = {}

C1_Expected ==
    <<"load_mask", "rescale_up", "crop_3d", "rescale_down", "save_scan",
      "save_mask">>

\* C1: in step2 the operations applied to every case are, in this order,
\* load_mask, rescale up, crop_3d, rescale down, save_scan, save_mask: what
\* has been applied to a case is always a prefix of that sequence (so no save
\* precedes the crop or the down rescale, nothing is skipped or repeated),
\* the cases before the current one have the whole sequence, the cases after
\* it nothing, and a step2 that returned normally applied it all to every case.
C1_Step2Order ==
    \A n \in DOMAIN opsDone :
        /\ IsPrefix(opsDone[n], C1_Expected)
        /\ (pc = "step2" /\ n < i) => opsDone[n] = C1_Expected
        /\ (pc = "step2" /\ n > i) => opsDone[n] = <<>>
        /\ (pc = "idle" /\ error = "none" /\ InSteps(2, steps))
              => opsDone[n] = C1_Expected

\* C1 witness: step2 returned normally after processing two cases
C1_Witness ==
    /\ pc = "idle"
    /\ error = "none"
    /\ InSteps(2, steps)
    /\ N = 2
    /\ \A n \in Cases : opsDone[n] = C1_Expected

\* C2: preprocess_dataset runs step1 iff 1 is in steps and step2 iff 2 is in
\* steps, after prepare_output_folders; with both selected step1 has processed
\* every case before step2 starts; and a step2-only call that loads a mask
\* stored by step1 loads, for each case, the mask step1 made for that case.
C2_StepSelection ==
    /\ (pc = "idle" /\ calls > 0) =>
          /\ ("step1" \in Range(phases)) <=> InSteps(1, steps)
          /\ ("step2" \in Range(phases)) <=> InSteps(2, steps)
    /\ (pc \in {"step1", "test2", "step2"}) =>
          /\ phases # <<>>
          /\ phases[1] = "prepare"
          /\ OutputFolders \subseteq dirs
    /\ (pc = "step2" /\ InSteps(1, steps)) => step1Cases = Cases
    /\ (pc = "step2" /\ steps = <<2>> /\ k = 2 /\ ~patient.mask.cropped) =>
          /\ patient.mask.json = patient.json
          /\ patient.mask.nifti = patient.nifti

\* C3: whenever a Patient holds a mask, the mask has the shape of the volume
\* the Patient holds, after any sequence of calls (stated for the cases whose
\* output paths are their own, where no other case writes the mask file).
C3_MaskShape ==
    (/\ patient.mask.kind # "none"
     /\ \E n \in Cases : OwnPaths(n) /\ dataset_paths[n][1] = patient.json)
        => patient.mask.shape = patient.vol.shape

\* C4 (as claimed): in no state of the store does a case have its cropped
\* scan written while its mask file is not the cropped mask, or the reverse.
C4_NoPartialState ==
    \A n \in Cases : OwnPaths(n) => (ScanCropped(n) <=> MaskCropped(n))

\* C4 (amended): every file step2 writes is written after crop_3d succeeded
\* on the scan and the mask of the case, the arrays written are the
\* Patient's cropped scan and mask, of equal shape, and a step that ends the
\* call with an exception leaves the store as it was.
C4_SavesAfterCrop ==
    [][ /\ (pc = "step2" /\ store' # store) =>
             /\ patient.vol.cropped
             /\ patient.mask.cropped
             /\ patient.vol.shape = patient.mask.shape
             /\ \E n \in Cases :
                   \/ store' = Put(store, ScanPath(n), patient.vol)
                   \/ store' = Put(store, MaskPath(n), patient.mask)
        /\ (error' # "none" /\ pc = "step2") => store' = store
      ]_vars

\* C4 witness: a case whose cropped scan and cropped mask are both stored,
\* with equal shape, after a later operation failed
C4_Witness ==
    /\ error = "ShapeMismatch"
    /\ \E n \in Cases :
          /\ OwnPaths(n)
          /\ ScanCropped(n)
          /\ MaskCropped(n)
          /\ store[ScanPath(n)].shape = store[MaskPath(n)].shape

\* C5: a fatal condition in one case aborts that case only: when a call that
\* selected step 2 has returned, step2 has worked on every case (stated for
\* datasets in which every case has output paths of its own).
C5_SkipAndContinue ==
    (/\ pc = "idle"
     /\ calls > 0
     /\ InSteps(2, steps)
     /\ \A n \in Cases : OwnPaths(n))
        => \A n \in Cases : opsDone[n] # <<>>

\* the mask step1 makes for case m: a function of the json, the nifti and
\* cube_side
C6_MaskOf(m, cube) ==
    [kind |-> "mask", json |-> dataset_paths[m][1],
     nifti |-> dataset_paths[m][2], cube |-> cube,
     shape |-> <<GridXY, GridXY, depth[dataset_paths[m][2]]>>,
     cropped |-> FALSE]

\* the last case of dataset_paths that writes the mask path of case n
C6_LastWriter(n) ==
    CHOOSE m \in Cases :
        /\ MaskPath(m) = MaskPath(n)
        /\ \A q \in Cases : MaskPath(q) = MaskPath(n) => q <= m

\* C6: when step1 has returned, it has written the mask of every case, and
\* every mask file holds what step1 leaves on an empty store: the mask made
\* from the inputs of the last case writing that path, whatever the store
\* held before.
C6_Step1Overwrites ==
    (pc = "test2" /\ InSteps(1, steps)) =>
        /\ step1Cases = Cases
        /\ \A n \in Cases :
              /\ MaskPath(n) \in DOMAIN store
              /\ store[MaskPath(n)] = C6_MaskOf(C6_LastWriter(n), cube_side)

\* C6 witness: step1 has returned in a second call, after a step2 that
\* cropped the scan and the mask of a case to a smaller shape
C6_Witness ==
    /\ pc = "test2"
    /\ InSteps(1, steps)
    /\ calls = 2
    /\ \E n \in Cases :
          /\ OwnPaths(n)
          /\ ScanCropped(n)
          /\ store[ScanPath(n)].shape[3] < depth[dataset_paths[n][2]]

\* the nifti candidates of case n, read off the listing
C7_Candidates(n) ==
    {p \in Range(JoinAll(input_dir, listing)) :
        /\ StartsWith(p, Slice(dataset_paths[n][1], 0, JsonSuffixLen))
        /\ EndsWith(p, ".nii.gz")}

\* C7: the nifti selected for a case has depth below max_depth, and no
\* candidate of the case with depth below max_depth is deeper.
C7_DeepestBelowMax ==
    ctor = "ok" =>
        \A n \in Cases :
            /\ depth[dataset_paths[n][2]] < max_depth
            /\ \A c \in C7_Candidates(n) :
                  depth[c] < max_depth =>
                      depth[c] <= depth[dataset_paths[n][2]]

\* the json files of the input directory with more than 2 top-level keys
C8_UsableJsons ==
    {PathJoin(input_dir, f) :
        f \in {g \in Range(listing) :
                  /\ EndsWith(g, ".json")
                  /\ keys[PathJoin(input_dir, g)] > 2}}

\* C8: the json paths of dataset_paths are exactly the .json files of
\* input_dir with more than 2 top-level keys, each once, each paired with
\* one nifti path of input_dir; so every case step1 or step2 works on has
\* a usable annotation.
C8_UsableAnnotations ==
    ctor = "ok" =>
        /\ {dataset_paths[n][1] : n \in Cases} = C8_UsableJsons
        /\ \A m, n \in Cases : m # n => dataset_paths[m][1] # dataset_paths[n][1]
        /\ \A n \in Cases :
              /\ Len(dataset_paths[n]) = 2
              /\ dataset_paths[n][2] \in DOMAIN depth
        /\ (pc \in {"step1", "step2"} /\ i \in Cases) =>
              keys[dataset_paths[i][1]] > 2

\* C8 witness: step1 works on a case while the input directory also holds a
\* json file with only 2 keys
C8_Witness ==
    /\ pc = "step1"
    /\ i \in Cases
    /\ \E p \in DOMAIN keys : keys[p] = 2

\* C9: step1 writes mask files only, each under OUTPUT_DIR/masks/ and at no
\* scan output path; a scan is written by step2 only, at a scan output path.
C9_Step1WritesMasksOnly ==
    \A w \in written :
        /\ w.phase = "step1" =>
              /\ w.kind = "mask"
              /\ StartsWith(w.path, PathJoin(output_dir, "masks/"))
              /\ \A n \in Cases : w.path # ScanPath(n)
        /\ w.kind = "scan" =>
              /\ w.phase = "step2"
              /\ \E n \in Cases : w.path = ScanPath(n)

\* C10: output_paths is as long as dataset_paths, and two distinct cases
\* share neither a scan output path nor a mask output path.
C10_DistinctOutputs ==
    ctor = "ok" =>
        /\ Len(output_paths) = Len(dataset_paths)
        /\ \A m, n \in Cases :
              m # n => /\ ScanPath(m) # ScanPath(n)
                       /\ MaskPath(m) # MaskPath(n)

====
